---- MODULE Spec2Model ----
(***************************************************************************)
(* The shader playground (class ShaderPlayground, MediaRecorder export)    *)
(* as a state machine.  JavaScript runs every handler to completion, so    *)
(* each event handler or scheduled callback is one action.  A method of    *)
(* the class is an operator from a program state (the record State) to the *)
(* program state it leaves; a handler that calls other methods is the      *)
(* composition of their operators.                                         *)
(*                                                                         *)
(* Numbers.  Slider values are decimals with one fractional digit, held    *)
(* as integers in tenths (Scale).  A time is a rational [num, den].  The   *)
(* frame total is an integer or +Infinity, [inf, n].  Math.PI is the       *)
(* rational PiNum / PiDen; for every speed of SpeedTexts and of            *)
(* WideSpeedTexts the frame total computed with it equals the one IEEE     *)
(* double arithmetic gives.                                                *)
(***************************************************************************)
EXTENDS Integers, Sequences, FiniteSets, TLC

VARIABLES
    app,    \* the fields of the ShaderPlayground object (this.*)
    gl,     \* the canvas and its WebGL2 context
    dom,    \* the export button, its text and the info line
    host,   \* the browser: clock, pending callbacks, recorders, downloads,
            \* the last message of console.error
    env     \* how many events of each kind the environment has delivered

vars == <<app, gl, dom, host, env>>

----------------------------------------------------------------------------
(* Bounds of the model *)

MaxNow == 1          \* clock readings 0..MaxNow
MaxEvents == 3       \* events the environment delivers: clicks, encoder
                     \* errors, slider inputs, variation changes, resizes
FrameCap == 1        \* frame indices told apart in a session without end

(* Program constants *)

Fps == 60            \* const fps = 60
MsPerSecond == 1000  \* (performance.now() - startTime) / 1000
Scale == 10          \* slider values are held in tenths
PiNum == 355         \* Math.PI ~ 355 / 113
PiDen == 113
PiLowNum == 103993    \* 103993 / 33102 < Math.PI
PiLowDen == 33102

----------------------------------------------------------------------------
(* Numbers *)

Rat(n, d) == [num |-> n, den |-> d]
RatEq(a, b) == a.num * b.den = b.num * a.den
\* a < b, both denominators positive
RatLess(a, b) == a.num * b.den < b.num * a.den

Num(n) == [inf |-> FALSE, n |-> n]
Infinity == [inf |-> TRUE, n |-> 0]

\* k >= total, k a finite number
GE(k, total) == ~total.inf /\ k >= total.n

\* Math.ceil(a / b), b # 0
Ceil(a, b) ==
    LET p == IF b < 0 THEN -a ELSE a
        q == IF b < 0 THEN -b ELSE b
    IN  IF p >= 0 THEN (p + q - 1) \div q ELSE -((-p) \div q)

\* Math.round(a / b) for a >= 0, b > 0
Round(a, b) == (2 * a + b) \div (2 * b)

\* this.currentFrame++ while the total is `total`.  Against a finite total the
\* counter is bounded by the total.  Against +Infinity every index compares
\* alike: the indices from FrameCap on are held as FrameCap and FrameCap + 1
\* in turn, so that a capture step still changes the counter
Increment(k, total) == IF total.inf /\ k > FrameCap THEN FrameCap ELSE k + 1

----------------------------------------------------------------------------
(* The inputs the environment draws from *)

Variations == {"rocaille", "liquid", "electric", "kaleidoscope", "alien"}

\* tags the switch of the templater has no clause for
UnknownTags == {"", "plasma"}
Sliders == {"speed", "zoom", "warpStrength", "glowSharpness", "colorPhase", "iterations"}

\* e.target.value of a slider: a decimal numeral, sign, whole part, one digit
Numeral(neg, whole, tenth) == [neg |-> neg, whole |-> whole, tenth |-> tenth]

\* the store enforces no range: speed 200.0 gives a session of 2 frames,
\* speed 0 an infinite one, speed -100.0 a negative total
SpeedTexts ==
    { Numeral(FALSE, 200, 0), Numeral(FALSE, 0, 0), Numeral(TRUE, 100, 0) }

\* the speeds -3.9, ..., -0.1, 0.0, 0.1, ..., 3.9 of the wide specification
WideSpeedTexts ==
    { Numeral(FALSE, w, d) : w \in 0..3, d \in 0..9 }
        \cup ({ Numeral(TRUE, w, d) : w \in 0..3, d \in 0..9 } \ { Numeral(TRUE, 0, 0) })

SliderTexts(id) == IF id = "speed" THEN SpeedTexts ELSE { Numeral(FALSE, 0, 5) }

\* parseFloat(e.target.value)
parseFloat(t) ==
    LET m == t.whole * Scale + t.tenth IN IF t.neg THEN -m ELSE m

\* the canvas size at construction and the one a resize event brings
FirstSize == <<4, 3>>
CanvasSizes == { <<8, 6>> }

\* the tag a change event of the dropdown brings (every tag: TagInputs)
VariationInputs == {"alien"}

\* every tag, and tags the templater has no clause for
TagInputs == Variations \cup UnknownTags

BuildOutcomes == {"ok", "vertexFail", "fragmentFail", "linkFail"}

----------------------------------------------------------------------------
(* The program state that the methods transform *)

State == [app |-> app, gl |-> gl, dom |-> dom, host |-> host]

Commit(s) ==
    /\ app' = s.app
    /\ gl' = s.gl
    /\ dom' = s.dom
    /\ host' = s.host

----------------------------------------------------------------------------
(* Shader source templater *)

(* A source text is the sequence of its pieces: "header", "footer", and the   *)
(* loop body of a variation, named by the tag of that variation.  The empty  *)
(* string is the empty sequence and + is concatenation.                      *)

header == <<"header">>
footer == <<"footer">>

\* let loopCode: not yet assigned
Undefined == [defined |-> FALSE, text |-> <<>>]
Defined(text) == [defined |-> TRUE, text |-> text]

\* the case clauses of the switch in source order: the tag, the body the
\* clause assigns to loopCode, and whether the clause ends with break
Cases ==
    << [tag |-> "rocaille", body |-> <<"rocaille">>, break |-> TRUE],
       [tag |-> "liquid", body |-> <<"liquid">>, break |-> TRUE],
       [tag |-> "electric", body |-> <<"electric">>, break |-> TRUE],
       [tag |-> "kaleidoscope", body |-> <<"kaleidoscope">>, break |-> TRUE],
       [tag |-> "alien", body |-> <<"alien">>, break |-> TRUE] >>

\* the same clauses with every break left out
CasesNoBreak == [i \in DOMAIN Cases |-> [Cases[i] EXCEPT !.break = FALSE]]

\* default: loopCode = loopCode || ''
defaultClause(loopCode) ==
    IF loopCode.defined /\ loopCode.text # <<>> THEN loopCode ELSE Defined(<<>>)

\* the clause a switch on variation enters: the first with that tag, or default
entryClause(cases, variation) ==
    IF \E i \in DOMAIN cases : cases[i].tag = variation
    THEN CHOOSE i \in DOMAIN cases :
            /\ cases[i].tag = variation
            /\ \A k \in 1..(i - 1) : cases[k].tag # variation
    ELSE Len(cases) + 1

\* the statements of the switch from clause i on, up to a break
RECURSIVE runSwitch(_, _, _)
runSwitch(cases, i, loopCode) ==
    IF i > Len(cases) THEN defaultClause(loopCode)
    ELSE IF cases[i].break THEN Defined(cases[i].body)
    ELSE runSwitch(cases, i + 1, Defined(cases[i].body))

\* a templater whose clauses fall through to the next one
generateFragmentShaderFallThrough(variation) ==
    header \o runSwitch(CasesNoBreak, entryClause(CasesNoBreak, variation), Undefined).text
        \o footer

\* generateFragmentShader(variation): header + loopCode + footer
generateFragmentShader(variation) ==
    header \o runSwitch(Cases, entryClause(Cases, variation), Undefined).text \o footer

----------------------------------------------------------------------------
(* The WebGL2 context.  A program is [status, source]; status is "linked", *)
(* "unlinked" (link failed), "flagged" (deleteProgram on the program in    *)
(* use: it stays usable until another program is used) or "deleted".       *)
(* gl.uniform holds the uniform values of the program in use.              *)

ZeroUniform ==
    [iResolution |-> <<0, 0>>, iTime |-> Rat(0, 1), iSpeed |-> 0, iZoom |-> 0,
     iWarpStrength |-> 0, iGlowSharpness |-> 0, iColorPhase |-> 0,
     iIterations |-> 0]

NoDraw == [driver |-> "none", frame |-> 0, program |-> 0, u |-> ZeroUniform]

\* a deleteProgram that frees nothing
deleteProgramSkipped(g, p) == g

\* gl.deleteProgram(p)
deleteProgram(g, p) ==
    IF p = 0 \/ g.programs[p].status \in {"flagged", "deleted"} THEN g
    ELSE IF p = g.current
         THEN [g EXCEPT !.programs[p].status = "flagged"]
         ELSE [g EXCEPT !.programs[p].status = "deleted"]

\* gl.createProgram(), attachShader, linkProgram
linkProgram(g, source, linked) ==
    [g EXCEPT !.programs =
        Append(@, [status |-> IF linked THEN "linked" ELSE "unlinked",
                   source |-> source])]

\* gl.useProgram(p): the program it replaces is freed if it was flagged
useProgram(g, p) ==
    LET old == g.current
        freed == IF old # 0 /\ old # p /\ g.programs[old].status = "flagged"
                 THEN [g EXCEPT !.programs[old].status = "deleted"]
                 ELSE g
    IN  [freed EXCEPT !.current = p, !.uniform = ZeroUniform]

\* the uniform writes of a frame without the one of the resolution
writeUniformsResolutionKept(s, time) ==
    IF s.app.uniforms # 0 /\ s.app.uniforms = s.gl.current
    THEN [s EXCEPT !.gl.uniform =
            [iResolution |-> s.gl.uniform.iResolution, iTime |-> time,
             iSpeed |-> s.app.params.speed, iZoom |-> s.app.params.zoom,
             iWarpStrength |-> s.app.params.warpStrength,
             iGlowSharpness |-> s.app.params.glowSharpness,
             iColorPhase |-> s.app.params.colorPhase,
             iIterations |-> s.app.params.iterations]]
    ELSE s

\* the eight gl.uniform* calls of a frame: a location of no program ({}) is
\* ignored, a location of a program that is not in use is an error
writeUniforms(s, time) ==
    IF s.app.uniforms # 0 /\ s.app.uniforms = s.gl.current
    THEN [s EXCEPT !.gl.uniform =
            [iResolution |-> s.gl.canvas, iTime |-> time,
             iSpeed |-> s.app.params.speed, iZoom |-> s.app.params.zoom,
             iWarpStrength |-> s.app.params.warpStrength,
             iGlowSharpness |-> s.app.params.glowSharpness,
             iColorPhase |-> s.app.params.colorPhase,
             iIterations |-> s.app.params.iterations]]
    ELSE s

\* gl.drawArrays(gl.TRIANGLE_STRIP, 0, 4): draws with the program in use
drawArrays(s, driver, frame) ==
    IF s.gl.current # 0
    THEN [s EXCEPT !.gl.lastDraw =
            [driver |-> driver, frame |-> frame, program |-> s.gl.current,
             u |-> s.gl.uniform]]
    ELSE s

----------------------------------------------------------------------------
(* Pipeline binder *)

\* a buildShader that deletes the old program only once the new one has linked
buildShaderKeepsProgram(s, variation, outcome) ==
    LET source == generateFragmentShader(variation)
        id == Len(s.gl.programs) + 1
    IN  IF outcome # "ok"
        THEN [s EXCEPT !.host.console = "Program link error"]
        ELSE [s EXCEPT !.gl = useProgram(linkProgram(deleteProgram(s.gl, s.app.program),
                                                     source, TRUE), id),
                       !.app.program = id,
                       !.app.uniforms = id]

\* buildShader(variation); outcome is what compile and link report
buildShader(s, variation, outcome) ==
    LET g1 == deleteProgram(s.gl, s.app.program)
        source == generateFragmentShader(variation)
        id == Len(g1.programs) + 1
    IN  IF outcome = "vertexFail"
        THEN [s EXCEPT !.gl = g1, !.host.console = "Vertex shader error"]
        ELSE IF outcome = "fragmentFail"
        THEN [s EXCEPT !.gl = g1, !.host.console = "Fragment shader error"]
        ELSE IF outcome = "linkFail"
        THEN [s EXCEPT !.gl = linkProgram(g1, source, FALSE), !.app.program = id,
                       !.host.console = "Program link error"]
        ELSE [s EXCEPT !.gl = useProgram(linkProgram(g1, source, TRUE), id),
                       !.app.program = id,
                       !.app.uniforms = id]

----------------------------------------------------------------------------
(* Frame driver *)

\* resize(): size is window.innerWidth/Height times devicePixelRatio
resize(s, size) ==
    [s EXCEPT !.gl.canvas = size, !.gl.viewport = size]

\* (performance.now() - this.startTime) / 1000
liveTime(s) == Rat(s.host.now - s.app.startTime, MsPerSecond)

\* a render whose path during an export returns without rescheduling itself
renderStopsDuringExport(s) ==
    IF s.app.isExporting
    THEN s
    ELSE LET drawn == drawArrays(writeUniforms(s, liveTime(s)), "live", 0)
         IN  [drawn EXCEPT !.host.rafPending = @ + 1]

\* render(): the callback itself has been taken off the pending ones
render(s) ==
    IF s.app.isExporting
    THEN [s EXCEPT !.host.rafPending = @ + 1]
    ELSE LET drawn == drawArrays(writeUniforms(s, liveTime(s)), "live", 0)
         IN  [drawn EXCEPT !.host.rafPending = @ + 1]

----------------------------------------------------------------------------
(* Export controller *)

Text(k, pct) == [k |-> k, pct |-> pct]
Info(k, cur, total) == [k |-> k, cur |-> cur, total |-> total]

\* a loop duration of half a period, Math.PI / speed
getLoopDurationHalf(s) ==
    [inf |-> s.app.params.speed = 0,
     num |-> PiNum * Scale,
     den |-> PiDen * s.app.params.speed]

\* getLoopDuration(): (2 * Math.PI) / this.params.speed, +Infinity at speed 0
getLoopDuration(s) ==
    [inf |-> s.app.params.speed = 0,
     num |-> 2 * PiNum * Scale,
     den |-> PiDen * s.app.params.speed]

\* a total rounded down, Math.floor(loopDuration * fps)
frameTotalFloor(s) ==
    LET d == getLoopDuration(s)
    IN  IF d.inf THEN Infinity ELSE Num(-Ceil(-(d.num * Fps), d.den))

\* a total one frame too long
frameTotalOneMore(s) ==
    LET d == getLoopDuration(s)
    IN  IF d.inf THEN Infinity ELSE Num(Ceil(d.num * Fps, d.den) + 1)

\* Math.ceil(loopDuration * fps)
frameTotal(s) ==
    LET d == getLoopDuration(s)
    IN  IF d.inf THEN Infinity ELSE Num(Ceil(d.num * Fps, d.den))

\* a frame time taken from the wall clock
frameTimeWallClock(s) == Rat(s.host.now - s.app.startTime, MsPerSecond)

\* this.currentFrame / fps
frameTime(s) == Rat(s.app.currentFrame, Fps)

\* a stop test that is off by one
captureDoneEarly(s) == GE(s.app.currentFrame + 1, s.app.exportFrameCount)

\* this.currentFrame >= this.exportFrameCount
captureDone(s) == GE(s.app.currentFrame, s.app.exportFrameCount)

\* Math.round((currentFrame / exportFrameCount) * 100), total > currentFrame - 1
progress(cur, total) == IF total.inf THEN 0 ELSE Round(cur * 100, total.n)

\* this.mediaRecorder.stop(): throws InvalidStateError on an inactive recorder,
\* otherwise the recorder stops and its dataavailable and stop events are queued
stopRecorder(s) ==
    LET m == s.app.mediaRecorder
    IN  IF s.host.recorders[m].state = "inactive" THEN s
        ELSE [s EXCEPT !.host.recorders[m].state = "inactive",
                       !.host.stopQueued = @ \cup {m}]

\* track.requestFrame(): the canvas frame reaches the encoder of the track's
\* recorder while that recorder records (of a session without end the log
\* keeps the first FrameCap + 1 frames)
requestFrame(s, track) ==
    IF /\ s.host.recorders[track].state = "recording"
       /\ ~(s.app.exportFrameCount.inf /\ Len(s.host.recorders[track].frames) > FrameCap)
    THEN [s EXCEPT !.host.recorders[track].frames = Append(@, s.app.currentFrame)]
    ELSE s

\* captureFrames(track, textEl, infoEl): the callback itself has been taken
\* off the pending timers
captureFrames(s, track) ==
    IF captureDone(s)
    THEN stopRecorder(s)
    ELSE LET drawn == drawArrays(writeUniforms(s, frameTime(s)), "export",
                                 s.app.currentFrame)
             sent == requestFrame(drawn, track)
             cur == Increment(s.app.currentFrame, s.app.exportFrameCount)
         IN  [sent EXCEPT
                !.app.currentFrame = cur,
                !.dom.recordText = Text("Recording", progress(cur, s.app.exportFrameCount)),
                !.dom.recordInfo = Info("frames", cur, s.app.exportFrameCount),
                !.host.captureTimers = @ \cup {track}]

\* startExport(button, textEl, infoEl)
startExport(s) ==
    LET total == frameTotal(s)
        id == Len(s.host.recorders) + 1
        started ==
            [s EXCEPT
                !.app.exportFrameCount = total,
                !.app.currentFrame = 0,
                !.app.recordedChunks = <<>>,
                !.app.isExporting = TRUE,
                !.dom.recording = TRUE,
                !.dom.disabled = TRUE,
                !.dom.recordText = Text("Recording...", 0),
                !.dom.recordInfo = Info("frames", 0, total),
                !.dom.infoActive = TRUE,
                !.app.mediaRecorder = id,
                !.host.recorders =
                    Append(@, [state |-> "recording", frames |-> <<>>,
                               failed |-> FALSE])]
    IN  captureFrames(started, id)

\* a click listener without the isExporting guard
clickHandlerUnguarded(s) == startExport(s)

\* the click listener of the export button
clickHandler(s) == IF s.app.isExporting THEN s ELSE startExport(s)

\* finishExport, the download: a Blob of this.recordedChunks, named with the
\* variation and Date.now(), and a.click()
downloadChunks(s) ==
    [s EXCEPT
        !.host.downloads =
            Append(@, [chunks |-> s.app.recordedChunks,
                       variation |-> s.app.params.variation,
                       at |-> s.host.now])]

\* finishExport, back to idle: the buffer, the flag, the button and the texts
restoreIdle(s) ==
    [s EXCEPT
        !.app.recordedChunks = <<>>,
        !.app.isExporting = FALSE,
        !.dom.recording = FALSE,
        !.dom.disabled = FALSE,
        !.dom.recordText = Text("Export Video", 0),
        !.dom.recordInfo = Info("Download complete!", 0, Num(0))]

\* a finishExport that leaves the start mark alone
restartLiveClockSkipped(s) == s

\* finishExport: this.startTime = performance.now()
restartLiveClock(s) == [s EXCEPT !.app.startTime = s.host.now]

\* finishExport(button, textEl, infoEl); its last statement sets the timer
\* that clears the info line
finishExport(s) ==
    [restartLiveClock(restoreIdle(downloadChunks(s))) EXCEPT !.host.infoTimers = @ + 1]

\* mediaRecorder.ondataavailable: e.data is the blob of recorder m
ondataavailable(s, m, size) ==
    IF size > 0
    THEN [s EXCEPT !.app.recordedChunks =
            Append(@, [recorder |-> m, frames |-> s.host.recorders[m].frames])]
    ELSE s

\* mediaRecorder.onstop
onstop(s) == finishExport(s)

\* an error handler that shows the error but leaves the exporting flag set
onerrorFlagKept(s) ==
    [s EXCEPT
        !.dom.recordText = Text("Export failed", 0),
        !.dom.recordInfo = Info("Recording error", 0, Num(0)),
        !.dom.disabled = FALSE,
        !.dom.recording = FALSE]

\* mediaRecorder.onerror
onerror(s) ==
    [s EXCEPT
        !.host.console = "MediaRecorder error",
        !.dom.recordText = Text("Export failed", 0),
        !.dom.recordInfo = Info("Recording error", 0, Num(0)),
        !.dom.disabled = FALSE,
        !.dom.recording = FALSE,
        !.app.isExporting = FALSE]

\* the 3000 ms timer of finishExport
clearInfo(s) ==
    [s EXCEPT !.dom.recordInfo = Info("", 0, Num(0)), !.dom.infoActive = FALSE]

----------------------------------------------------------------------------
(* UI glue *)

\* the change listener of the variation dropdown
variationChange(s, value, outcome) ==
    buildShader([s EXCEPT !.app.params.variation = value], value, outcome)

\* an input listener that also recomputes the frame total of the export
sliderInputRetotals(s, id, text) ==
    LET written == [s EXCEPT !.app.params[id] = parseFloat(text)]
    IN  [written EXCEPT !.app.exportFrameCount = frameTotal(written)]

\* an input listener that writes the speed along with its own field
sliderInputAlsoSpeed(s, id, text) ==
    [s EXCEPT !.app.params[id] = parseFloat(text),
              !.app.params.speed = parseFloat(text)]

\* the input listener of slider id
sliderInput(s, id, text) ==
    [s EXCEPT !.app.params[id] = parseFloat(text)]

----------------------------------------------------------------------------
(* Construction *)

\* the fields the constructor assigns before it calls any method
Fresh ==
    [app |-> [params |-> [variation |-> "rocaille", speed |-> 10, zoom |-> 3,
                          warpStrength |-> 10, glowSharpness |-> 10,
                          colorPhase |-> 0, iterations |-> 100],
              startTime |-> 0, program |-> 0, uniforms |-> 0,
              isExporting |-> FALSE, mediaRecorder |-> 0,
              recordedChunks |-> <<>>, exportFrameCount |-> Num(0),
              currentFrame |-> 0],
     gl |-> [canvas |-> <<0, 0>>, viewport |-> <<0, 0>>, programs |-> <<>>,
             current |-> 0, uniform |-> ZeroUniform, lastDraw |-> NoDraw],
     dom |-> [disabled |-> FALSE, recording |-> FALSE,
              recordText |-> Text("html", 0), recordInfo |-> Info("", 0, Num(0)),
              infoActive |-> FALSE],
     host |-> [now |-> 0, rafPending |-> 0, captureTimers |-> {},
               recorders |-> <<>>, stopQueued |-> {}, infoTimers |-> 0,
               downloads |-> <<>>, console |-> ""]]

\* new ShaderPlayground(): buildShader, resize, render
constructed(outcome, size) ==
    render(resize(buildShader(Fresh, "rocaille", outcome), size))

NoEvents == [events |-> 0, clicks |-> 0]

Holds(s) ==
    /\ app = s.app
    /\ gl = s.gl
    /\ dom = s.dom
    /\ host = s.host

\* the page after construction, the speed slider moved to any of its values
Init ==
    \E text \in SpeedTexts :
        /\ Holds(sliderInput(constructed("ok", FirstSize), "speed", text))
        /\ env = NoEvents

----------------------------------------------------------------------------
(* Actions: one per event handler or scheduled callback *)

\* the clock moves on
Tick ==
    /\ host.now < MaxNow
    /\ host' = [host EXCEPT !.now = @ + 1]
    /\ UNCHANGED <<app, gl, dom, env>>

\* requestAnimationFrame runs a pending render callback
RenderTick ==
    /\ host.rafPending > 0
    /\ Commit(render([State EXCEPT !.host.rafPending = @ - 1]))
    /\ UNCHANGED env

\* a click event on the export button
ClickExport ==
    /\ env.events < MaxEvents
    /\ env' = [env EXCEPT !.events = @ + 1, !.clicks = @ + 1]
    /\ Commit(clickHandler(State))

\* the pending captureFrames timer of a track fires
CaptureTimerOf(track) ==
    /\ track \in host.captureTimers
    /\ Commit(captureFrames([State EXCEPT !.host.captureTimers = @ \ {track}], track))
    /\ UNCHANGED env

CaptureTimer == \E track \in host.captureTimers : CaptureTimerOf(track)

\* the queued dataavailable and stop events of a stopped recorder are fired;
\* the blob of a recorder that got no frame may be empty
StopEventOf(m) ==
    /\ m \in host.stopQueued
    /\ \E size \in IF host.recorders[m].frames = <<>> THEN {0, 1} ELSE {1} :
            Commit(onstop(ondataavailable(
                [State EXCEPT !.host.stopQueued = @ \ {m}], m, size)))
    /\ UNCHANGED env

StopEvent == \E m \in host.stopQueued : StopEventOf(m)

\* the encoder of a recording recorder fails: the recorder becomes inactive,
\* its error event is fired, and a user agent may queue dataavailable and stop
ErrorEvent ==
    \E m \in 1..Len(host.recorders), stops \in BOOLEAN :
        /\ env.events < MaxEvents
        /\ host.recorders[m].state = "recording"
        /\ env' = [env EXCEPT !.events = @ + 1]
        /\ Commit(onerror(
               [State EXCEPT !.host.recorders[m].state = "inactive",
                             !.host.recorders[m].failed = TRUE,
                             !.host.stopQueued = IF stops THEN @ \cup {m} ELSE @]))

\* the timer finishExport set fires
InfoTimer ==
    /\ host.infoTimers > 0
    /\ Commit(clearInfo([State EXCEPT !.host.infoTimers = @ - 1]))
    /\ UNCHANGED env

\* an input event on slider id
SliderEventOf(id) ==
    \E text \in SliderTexts(id) :
        /\ env.events < MaxEvents
        /\ env' = [env EXCEPT !.events = @ + 1]
        /\ Commit(sliderInput(State, id, text))

SliderEvent == \E id \in Sliders : SliderEventOf(id)

\* a change event on the variation dropdown
VariationEvent ==
    \E value \in VariationInputs, outcome \in BuildOutcomes :
        /\ env.events < MaxEvents
        /\ env' = [env EXCEPT !.events = @ + 1]
        /\ Commit(variationChange(State, value, outcome))

\* a resize event on the window
ResizeEvent ==
    \E size \in CanvasSizes :
        /\ env.events < MaxEvents
        /\ env' = [env EXCEPT !.events = @ + 1]
        /\ Commit(resize(State, size))

Next ==
    \/ Tick
    \/ RenderTick
    \/ ClickExport
    \/ CaptureTimer
    \/ StopEvent
    \/ ErrorEvent
    \/ InfoTimer
    \/ SliderEvent
    \/ VariationEvent
    \/ ResizeEvent

Spec == Init /\ [][Next]_vars

----------------------------------------------------------------------------
(* Export sessions at the speeds of a slider, 0.0 to 3.9: the page after   *)
(* construction with the speed slider moved, then clicks on the export     *)
(* button and the callbacks of the sessions they start.                    *)

InitWide ==
    \E text \in WideSpeedTexts :
        /\ Holds(sliderInput(constructed("ok", FirstSize), "speed", text))
        /\ env = NoEvents

NextWide ==
    \/ ClickExport
    \/ CaptureTimer
    \/ StopEvent

SpecWide == InitWide /\ [][NextWide]_vars

----------------------------------------------------------------------------
(* Scheduling: a pending timer or animation-frame callback is run, and the *)
(* queued stop event of a recorder is delivered.                           *)

Fairness ==
    /\ \A track \in 1..MaxEvents : WF_vars(CaptureTimerOf(track))
    /\ \A m \in 1..MaxEvents : WF_vars(StopEventOf(m))
    /\ WF_vars(RenderTick)
    /\ WF_vars(InfoTimer)

SpecFair == Init /\ [][Next]_vars /\ Fairness

----------------------------------------------------------------------------
(* What a step did, and where a session stands *)

\* the step created a MediaRecorder: startExport ran
StartStep == Len(host'.recorders) = Len(host.recorders) + 1

\* the step triggered a download: finishExport ran
FinishStep == Len(host'.downloads) = Len(host.downloads) + 1

\* no recorder has had an encoder error
NoErrors == \A m \in 1..Len(host.recorders) : ~host.recorders[m].failed

Phase ==
    IF ~app.isExporting THEN "idle"
    ELSE IF host.recorders[app.mediaRecorder].state = "recording" THEN "exporting"
    ELSE "finalizing"

\* the frame indices 0, 1, ..., n - 1 (none when n <= 0)
FirstFrames(n) == [i \in 1..n |-> i - 1]

----------------------------------------------------------------------------
(* Claims *)

\* C1: a click on the export button that arrives while an export is active
\* changes nothing: the frame counter, the total, the recorder, the chunk
\* buffer and the exporting flag (all of app and host), the canvas and the
\* button stay as they were, at every frame index.
C1_StartWhileExportingIgnored ==
    [][(env'.clicks = env.clicks + 1 /\ app.isExporting)
            => (app' = app /\ host' = host /\ gl' = gl /\ dom' = dom)]_vars

\* a second click arrived while the only session was past its first frames
C1_Witness ==
    /\ app.isExporting
    /\ env.clicks = 2
    /\ Len(host.recorders) = 1
    /\ app.currentFrame >= 2

\* C2: at most one export session is active: there is never more than one
\* pending captureFrames callback chain.
C2_AtMostOneCaptureChain == Cardinality(host.captureTimers) <= 1

\* C3: a tick of the live driver that occurs while a capture loop is running
\* writes no uniform and issues no draw call.
C3_NoLiveDrawDuringCapture ==
    [][(RenderTick /\ host.captureTimers # {}) => gl' = gl]_vars

\* C4: while no encoder error has occurred a session goes idle -> exporting ->
\* finalizing -> idle: it leaves exporting only with the frame counter at or
\* past the total, and the flag returns to false only from finalizing, in the
\* step that triggers the download, with the recorder stopped.  (startExport
\* makes the first capture step itself, so with a total <= 0 the handler that
\* enters exporting also leaves it.)
C4_PhaseOrder ==
    [][NoErrors' =>
        /\ (Phase = "idle" /\ Phase' # "idle") =>
                /\ StartStep
                /\ Phase' = "finalizing" =>
                        (~app'.exportFrameCount.inf /\ app'.exportFrameCount.n <= 0)
        /\ (Phase = "exporting" /\ Phase' # "exporting") =>
                /\ Phase' = "finalizing"
                /\ GE(app'.currentFrame, app'.exportFrameCount)
        /\ (Phase = "finalizing" /\ Phase' # "finalizing") =>
                /\ Phase' = "idle"
                /\ FinishStep
                /\ host'.recorders[app'.mediaRecorder].state = "inactive"
      ]_vars

\* a session without error went through all its frames and is idle again
C4_Witness ==
    /\ NoErrors
    /\ Phase = "idle"
    /\ Len(host.downloads) = 1
    /\ Len(host.recorders) = 1
    /\ host.recorders[1].frames = <<0, 1>>

\* C5: a session whose recorder had no error and whose total is N has, when
\* its stop event triggers the download, submitted to its encoder exactly the
\* frames 0, 1, ..., N - 1, in this order.
C5_SessionSubmitsAllFrames ==
    [][\A m \in host.stopQueued \ host'.stopQueued :
            ~host.recorders[m].failed =>
                /\ ~app.exportFrameCount.inf
                /\ host.recorders[m].frames = FirstFrames(app.exportFrameCount.n)
      ]_vars

\* C6: the time uniform of a frame drawn by the export driver with index k is
\* k / 60, whatever the clock and the start mark are.
C6_ExportTimeIsFrameOverFps ==
    gl.lastDraw.driver = "export" =>
        RatEq(gl.lastDraw.u.iTime, Rat(gl.lastDraw.frame, 60))

\* an export frame other than frame 0 drawn when the wall clock has moved on
C6_Witness ==
    /\ gl.lastDraw.driver = "export"
    /\ gl.lastDraw.frame = 1
    /\ gl.lastDraw.u.iTime = Rat(1, 60)
    /\ host.now > app.startTime

\* C7 as stated: an export started with speed 1.0 has a total of 378 frames.
C7_TotalAtSpeedOneIs378 ==
    [][(StartStep /\ app.params.speed = 1 * Scale)
            => app'.exportFrameCount = Num(378)]_vars

\* C7 as amended: an export started with speed 1.0 has a total of 377 frames
\* (2 * pi * 60 = 376.99...).
C7_TotalAtSpeedOneIs377 ==
    [][(StartStep /\ app.params.speed = 1 * Scale)
            => app'.exportFrameCount = Num(377)]_vars

\* an export was started with speed 1.0
C7_Witness ==
    /\ app.params.speed = 1 * Scale
    /\ app.isExporting
    /\ Len(host.recorders) = 1
    /\ app.exportFrameCount = Num(377)

\* C8: startExport sets the total to ceil((2 pi / speed) * 60) for the speed
\* held at that moment: the total N is the integer with N - 1 < 120 pi / speed
\* <= N (+Infinity at speed 0), 189 at speed 2.0; and it resets the frame
\* counter: the first frame the session captures is frame 0, and the counter
\* counts the frames captured since.
C8_TotalAndCounterOnEntry ==
    [][StartStep =>
        LET sp == app.params.speed
            N == app'.exportFrameCount
            m == Len(host'.recorders)
            twoPiFps == 2 * PiNum * Scale * 60
        IN  /\ sp = 0 => N.inf
            /\ sp > 0 => /\ ~N.inf
                         /\ (N.n - 1) * sp * PiDen < twoPiFps
                         /\ twoPiFps <= N.n * sp * PiDen
            /\ sp < 0 => /\ ~N.inf
                         /\ (N.n - 1) * sp * PiDen > twoPiFps
                         /\ twoPiFps >= N.n * sp * PiDen
            /\ sp = 2 * Scale => N = Num(189)
            /\ host'.recorders[m].frames =
                    IF N.inf \/ N.n > 0 THEN <<0>> ELSE <<>>
            /\ app'.currentFrame = Len(host'.recorders[m].frames)
      ]_vars

\* a second export at speed 2.0 was started after the first had counted to 189
C8_Witness ==
    /\ app.params.speed = 2 * Scale
    /\ Len(host.recorders) = 2
    /\ Len(host.recorders[1].frames) = 189
    /\ app.exportFrameCount = Num(189)
    /\ app.currentFrame = 1

\* C9: every export that is started eventually returns to idle, the exporting
\* flag false and the button enabled, at every speed the store can hold.
C9_ExportEventuallyIdle ==
    app.isExporting ~> (~app.isExporting /\ ~dom.disabled)

\* C10: the step that finishes an export sets the start mark to the clock
\* reading of that moment, and a live frame is drawn with the time elapsed
\* since the start mark, so the first live frame after an export has the time
\* elapsed since the export ended.
C10_StartMarkResetOnFinish ==
    [][/\ FinishStep => app'.startTime = host'.now
       /\ (RenderTick /\ ~app.isExporting /\ gl.current # 0) =>
            /\ gl'.lastDraw.driver = "live"
            /\ gl'.lastDraw.u.iTime = Rat(host.now - app.startTime, 1000)
      ]_vars

\* a live frame drawn after an export that ended at clock reading 1
C10_Witness ==
    /\ Len(host.downloads) = 1
    /\ host.downloads[1].at = 1
    /\ NoErrors
    /\ host.recorders[1].frames = <<0, 1>>
    /\ app.startTime = 1
    /\ host.now = 1
    /\ gl.lastDraw.driver = "live"
    /\ gl.lastDraw.u.iTime = Rat(0, 1000)

\* C11: an encoder error aborts the session: when the pending captureFrames
\* callback of a session whose recorder has failed runs, it draws nothing,
\* submits no frame and does not reschedule itself.
C11_ErrorAbortsSession ==
    [][\A track \in host.captureTimers :
            (host.recorders[track].failed /\ CaptureTimerOf(track)) =>
                /\ gl' = gl
                /\ host'.recorders = host.recorders
                /\ host'.captureTimers = host.captureTimers \ {track}
      ]_vars

\* C12: no file is written for a session whose encoder reported an error: the
\* stop event of a recorder that has failed triggers no download.
C12_NoDownloadAfterError ==
    [][\A m \in host.stopQueued \ host'.stopQueued :
            host.recorders[m].failed => ~FinishStep]_vars

\* the step delivered the error event of a recorder
ErrorStep ==
    \E m \in 1..Len(host.recorders) :
        ~host.recorders[m].failed /\ host'.recorders[m].failed

\* C13: the step that delivers an encoder error leaves the exporting flag
\* false, the button enabled and without its recording state, and the error
\* texts shown; and a click that finds the flag false starts an export, so the
\* start request after an error is accepted.
C13_ErrorRestoresIdle ==
    [][/\ ErrorStep =>
            /\ ~app'.isExporting
            /\ ~dom'.disabled
            /\ ~dom'.recording
            /\ dom'.recordText = Text("Export failed", 0)
            /\ dom'.recordInfo = Info("Recording error", 0, Num(0))
       /\ (env'.clicks = env.clicks + 1 /\ ~app.isExporting) =>
            /\ StartStep
            /\ app'.isExporting
      ]_vars

\* a second export was started by a click that followed an encoder error
C13_Witness ==
    /\ Len(host.recorders) = 2
    /\ host.recorders[1].failed
    /\ host.recorders[2].state = "recording"
    /\ app.isExporting
    /\ app.mediaRecorder = 2

\* the step is a tick of the live driver that issues a draw call
LiveDrawStep == ~app.isExporting /\ gl.current # 0 /\ env' = env /\ RenderTick

\* the step is a capture step that issues a draw call: a captureFrames timer
\* that finds frames left, or the first capture step startExport makes
ExportDrawStep ==
    /\ gl.current # 0
    /\ \/ ~GE(app.currentFrame, app.exportFrameCount) /\ env' = env /\ CaptureTimer
       \/ StartStep /\ ~GE(0, app'.exportFrameCount)

\* C14: every draw call, of the live driver or of the export driver, is made
\* with the resolution uniform holding the pixel dimensions the canvas has at
\* that moment, so the first draw after a resize uses the new dimensions.
\* (Stated by contraposition: a step that does not leave the resolution
\* uniform, and the uniforms of the last draw, at the canvas dimensions is not
\* a step that draws.)
C14_DrawUsesCanvasSize ==
    [][~(/\ gl'.lastDraw.u.iResolution = gl.canvas
         /\ gl'.uniform.iResolution = gl.canvas
         /\ gl'.lastDraw.u = gl'.uniform)
            => ~(LiveDrawStep \/ ExportDrawStep)
      ]_vars

\* the second frame of an export drawn at the dimensions a resize brought
C14_Witness ==
    /\ gl.canvas \in CanvasSizes
    /\ gl.lastDraw.driver = "export"
    /\ gl.lastDraw.frame = 1
    /\ gl.lastDraw.u.iResolution = gl.canvas
    /\ env.events = 2

\* C15: at every draw call, live or export, the program the binder holds and
\* the uniform handles it has cached come from one and the same build, and
\* that build completed compile, link and uniform resolution.
C15_DrawWithCompletePipeline ==
    [][(LiveDrawStep \/ ExportDrawStep) =>
            /\ app.program # 0
            /\ app.uniforms = app.program
            /\ gl.programs[app.program].status # "unlinked"
      ]_vars

\* the step delivered an event other than a click to a listener
InputStep == env'.events = env.events + 1 /\ env'.clicks = env.clicks

\* the step left alone what no listener of a control touches: the button and
\* the texts, the recorders, the canvas dimensions
ListenerOnlyStep ==
    /\ dom' = dom
    /\ host'.recorders = host.recorders
    /\ gl'.canvas = gl.canvas

\* the step built a program that linked: a buildShader that succeeded
BuildStep ==
    /\ Len(gl'.programs) = Len(gl.programs) + 1
    /\ gl'.programs[Len(gl'.programs)].status = "linked"

\* the programs that linked and are not yet freed
LivePrograms(g) ==
    { p \in 1..Len(g.programs) : g.programs[p].status \in {"linked", "flagged"} }

\* C16: at most one linked program exists at a time; and after a variation
\* change whose build succeeds, the only program that is not deleted is the
\* new one, it is built from the variation now selected, it is the program
\* held, in use and whose uniform handles are cached, and the program held
\* before the change is deleted.
C16_OnePipelineAfterRebuild ==
    [][/\ Cardinality(LivePrograms(gl')) <= 1
       /\ BuildStep =>
            LET new == Len(gl'.programs)
            IN  /\ \A p \in 1..Len(gl'.programs) :
                        p # new => gl'.programs[p].status = "deleted"
                /\ gl'.programs[new].source = generateFragmentShader(app'.params.variation)
                /\ app'.program = new
                /\ app'.uniforms = new
                /\ gl'.current = new
                /\ app.program # 0 => gl'.programs[app.program].status = "deleted"
      ]_vars

\* the third program built: a rebuild that succeeded after an earlier rebuild
C16_Witness ==
    /\ Len(gl.programs) = 3
    /\ gl.programs[1].status = "deleted"
    /\ gl.programs[2].status = "deleted"
    /\ gl.programs[3] = [status |-> "linked", source |-> generateFragmentShader("alien")]
    /\ app.params.variation = "alien"
    /\ gl.current = 3

\* the diagnostics buildShader reports with console.error
BuildDiagnostics ==
    {"Vertex shader error", "Fragment shader error", "Program link error"}

\* C17: a rebuild that fails reports its diagnostic and rolls nothing back:
\* the program held before it is deleted (marked for deletion while it is the
\* one in use), no program that is linked and not deleted is left, the program
\* the binder holds is not such a program, and the cached uniform handles and
\* the program in use are those of before.
C17_FailedRebuildLeavesNoProgram ==
    [][(~BuildStep /\ InputStep /\ ListenerOnlyStep /\ VariationEvent) =>
            /\ host'.console \in BuildDiagnostics
            /\ \A p \in 1..Len(gl'.programs) : gl'.programs[p].status # "linked"
            /\ app.program # 0 =>
                    gl'.programs[app.program].status \in {"flagged", "deleted"}
            /\ app'.program # 0 => gl'.programs[app'.program].status # "linked"
            /\ app'.uniforms = app.uniforms
            /\ gl'.current = gl.current
      ]_vars

\* a rebuild failed at link: the binder holds the program that did not link
\* and the program of the build before is marked for deletion
C17_Witness ==
    /\ Len(gl.programs) = 2
    /\ gl.programs[1].status = "flagged"
    /\ gl.programs[2].status = "unlinked"
    /\ app.program = 2
    /\ app.uniforms = 1
    /\ host.console = "Program link error"

----------------------------------------------------------------------------
(* The templater over every tag: the page after construction, then change  *)
(* events of the dropdown that bring any tag, known or not, and ticks of   *)
(* the live driver.                                                        *)

TagEvent ==
    \E value \in TagInputs, outcome \in BuildOutcomes :
        /\ env.events < MaxEvents
        /\ env' = [env EXCEPT !.events = @ + 1]
        /\ Commit(variationChange(State, value, outcome))

InitTemplater ==
    /\ Holds(constructed("ok", FirstSize))
    /\ env = NoEvents

NextTemplater ==
    \/ TagEvent
    \/ RenderTick

SpecTemplater == InitTemplater /\ [][NextTemplater]_vars

\* how often piece x occurs in a source text
Occurrences(text, x) == Cardinality({ i \in DOMAIN text : text[i] = x })

\* C18: the source a build hands to the compiler is, for each of the five
\* tags, header + the body of that tag + footer, with header and footer once
\* each and the body of no other variation; for any other tag it is header +
\* footer with an empty body.
C18_TemplaterOutput ==
    [][Len(gl'.programs) = Len(gl.programs) + 1 =>
        LET text == gl'.programs[Len(gl'.programs)].source
            tag == app'.params.variation
        IN  /\ text = generateFragmentShader(tag)
            /\ Occurrences(text, "header") = 1
            /\ Occurrences(text, "footer") = 1
            /\ \A v \in Variations \ {tag} : Occurrences(text, v) = 0
            /\ tag \in Variations => text = <<"header", tag, "footer">>
            /\ tag \notin Variations => text = <<"header", "footer">>
      ]_vars

\* a program built for the last clause of the switch, then one for a tag the
\* switch does not know
C18_Witness ==
    /\ Len(gl.programs) = 3
    /\ gl.programs[1].source = <<"header", "rocaille", "footer">>
    /\ gl.programs[2].source = <<"header", "alien", "footer">>
    /\ gl.programs[3].source = <<"header", "footer">>
    /\ app.params.variation = "plasma"

\* the fields of the parameter record other than field f are left as they were
OnlyFieldWritten(f) ==
    \A g \in DOMAIN app.params : g # f => app'.params[g] = app.params[g]

\* C19: an input event of a slider writes that slider's field, with the number
\* parsed from the event's value, and no other field; a change event of the
\* dropdown changes no field but the variation; and no other step (live tick,
\* click, capture step, stop or error event, timer, resize) changes the record.
\* (The implications are stated by contraposition: a step that changes the
\* record is an input event, and is not the input event of a slider other
\* than the one whose field changed; a step that leaves a slider's field at a
\* value no input of that slider parses to is not an input event of it.)
C19_ParamsWrittenByInputsOnly ==
    [][/\ DOMAIN app'.params = DOMAIN app.params
       /\ app'.params # app.params =>
            /\ SliderEvent \/ VariationEvent
            /\ \A id \in Sliders : ~OnlyFieldWritten(id) => ~SliderEventOf(id)
            /\ ~OnlyFieldWritten("variation") => ~VariationEvent
       /\ (InputStep /\ ListenerOnlyStep) =>
            \A id \in Sliders :
                app'.params[id] \notin { parseFloat(text) : text \in SliderTexts(id) }
                    => ~SliderEventOf(id)
      ]_vars

\* sliders and the dropdown were used and an export has run to its download
C19_Witness ==
    /\ app.params.zoom = 5
    /\ app.params.variation = "alien"
    /\ app.params.speed = 200 * Scale
    /\ Len(host.downloads) = 1
    /\ env.events = 3

\* C20: a download is triggered only by the stop event of the session's own
\* recorder, which is stopped and has been given all frames of the session
\* (the counter is at or past the total); the step that triggers it makes
\* exactly one download, from the chunks delivered, and leaves the chunk
\* buffer empty and the controller idle; and there are never more downloads
\* than sessions.
C20_FinalizationOrder ==
    [][/\ Len(host'.downloads) <= Len(host'.recorders)
       /\ Len(host'.downloads) \in {Len(host.downloads), Len(host.downloads) + 1}
       /\ FinishStep =>
            /\ \E m \in host.stopQueued \ host'.stopQueued :
                    /\ m = app.mediaRecorder
                    /\ host.recorders[m].state = "inactive"
                    /\ host'.downloads[Len(host'.downloads)].chunks \in
                            { <<>>, <<[recorder |-> m, frames |-> host.recorders[m].frames]>> }
            /\ GE(app.currentFrame, app.exportFrameCount)
            /\ app'.recordedChunks = <<>>
            /\ ~app'.isExporting
            /\ ~dom'.disabled
      ]_vars

\* C21: between any two handlers exactly one callback of the live driver is
\* pending: render reschedules itself once on each of its paths, so no export
\* that starts, runs, fails or finishes stops the live loop or starts a second.
C21_OneLiveCallbackPending == host.rafPending = 1

\* the live driver drew again after one export failed and one was downloaded
C21_Witness ==
    /\ Len(host.recorders) >= 1
    /\ host.recorders[1].failed
    /\ host.recorders[1].frames # <<>>
    /\ Len(host.downloads) = 1
    /\ ~app.isExporting
    /\ gl.lastDraw.driver = "live"
    /\ host.rafPending = 1

\* the uniforms of the last draw are the parameters held now
DrawnWithParams ==
    /\ gl'.lastDraw.u.iSpeed = app'.params.speed
    /\ gl'.lastDraw.u.iZoom = app'.params.zoom
    /\ gl'.lastDraw.u.iWarpStrength = app'.params.warpStrength
    /\ gl'.lastDraw.u.iGlowSharpness = app'.params.glowSharpness
    /\ gl'.lastDraw.u.iColorPhase = app'.params.colorPhase
    /\ gl'.lastDraw.u.iIterations = app'.params.iterations
    /\ gl'.lastDraw.program = gl'.current

\* C22: the frame total is written only by the step that starts an export and
\* the frame counter only by that step and by capture steps: a step that
\* changes the parameter record (a slider input, a variation change) changes
\* neither, also while an export runs; and every frame the export driver draws
\* is drawn with the parameters and the program held at that moment.
C22_TotalFixedAtStart ==
    [][/\ app'.exportFrameCount # app.exportFrameCount => StartStep
       /\ app'.currentFrame # app.currentFrame =>
            StartStep \/ (env' = env /\ CaptureTimer)
       /\ (app'.params # app.params \/ gl'.programs # gl.programs) =>
            /\ app'.exportFrameCount = app.exportFrameCount
            /\ app'.currentFrame = app.currentFrame
       /\ ~DrawnWithParams => ~ExportDrawStep
      ]_vars

\* an export started at speed 200.0 (2 frames) whose speed was set to 0 after
\* frame 0: frame 1 was drawn with speed 0 and the export ended after 2 frames
C22_Witness ==
    /\ NoErrors
    /\ Len(host.downloads) = 1
    /\ host.recorders[1].frames = <<0, 1>>
    /\ app.exportFrameCount = Num(2)
    /\ app.params.speed = 0
    /\ gl.lastDraw.driver = "export"
    /\ gl.lastDraw.frame = 1
    /\ gl.lastDraw.u.iSpeed = 0

\* the loop period 2 pi / speed as getLoopDuration computes it, speed > 0
LoopPeriod == Rat(2 * PiNum * Scale, PiDen * app.params.speed)

\* a rational below the real period 2 pi / speed, speed > 0
LoopPeriodLow == Rat(2 * PiLowNum * Scale, PiLowDen * app.params.speed)

\* C23: at a speed above 0 that stays as it was at the click, every frame the
\* export draws has a time in [0, 2 pi / speed): the time of frame k is k / 60,
\* k runs from 0 to N - 1 with N the frame total, and (N - 1) / 60 lies below
\* the period, so no captured frame is the one that would repeat frame 0.
C23_FrameTimesWithinLoop ==
    (gl.lastDraw.driver = "export" /\ app.params.speed > 0) =>
        /\ ~app.exportFrameCount.inf
        /\ gl.lastDraw.frame \in 0..(app.exportFrameCount.n - 1)
        /\ RatEq(gl.lastDraw.u.iTime, Rat(gl.lastDraw.frame, Fps))
        /\ ~RatLess(gl.lastDraw.u.iTime, Rat(0, 1))
        /\ RatLess(gl.lastDraw.u.iTime, LoopPeriod)
        /\ RatLess(gl.lastDraw.u.iTime, LoopPeriodLow)
        /\ RatLess(Rat(app.exportFrameCount.n - 1, Fps), LoopPeriodLow)

\* the last frame of a whole session at speed 1.0: frame 376 of 377 is the
\* last one drawn and the file has been downloaded
C23_Witness ==
    /\ app.params.speed = Scale
    /\ app.exportFrameCount = Num(377)
    /\ gl.lastDraw.driver = "export"
    /\ gl.lastDraw.frame = 376
    /\ gl.lastDraw.u.iTime = Rat(376, Fps)
    /\ Len(host.downloads) = 1
    /\ ~app.isExporting

====
